---- MODULE Spec2Model ----
(***************************************************************************)
(* A model of the Cog script runner (server.js): the in-memory registry    *)
(* runtime.scripts, the node-cron tasks, the storage directories under     *)
(* ./data/scripts, and the child processes started by runScript together   *)
(* with the HTTP responses of the trigger and run endpoints.               *)
(*                                                                         *)
(* Strings that the code inspects or concatenates (stdout/stderr chunks,   *)
(* the message payload, what is written to stdin) are sequences of         *)
(* one-character strings, so that includes() and + are computed.           *)
(* Wall-clock time is abstracted: a timeout timer that is pending may fire *)
(* at any moment; a child may exit or emit data at any moment.             *)
(***************************************************************************)
EXTENDS Integers, Sequences, FiniteSets, TLC

(* ---- bounds of the model ---------------------------------------------- *)
MaxStored == 1
MaxNew == 1
MaxInv == 2
MaxChunks == 2

(* ---- program constants ------------------------------------------------- *)
DefaultTimeout == 30000

StoredIds == 1..MaxStored
AllIds == 1..(MaxStored + MaxNew)

(* ---- strings ----------------------------------------------------------- *)
Marker == <<"m", "e", "s", "s", "a", "g", "e", ":">>
NL == <<"\n">>
NullStr == <<"n", "u", "l", "l">>

\* A looser match: sub without its last character.
IncludesLoose(text, sub) ==
    \E k \in 0..(Len(text) - Len(sub) + 1) :
        SubSeq(text, k + 1, k + Len(sub) - 1) = SubSeq(sub, 1, Len(sub) - 1)

\* String.prototype.includes: some window of text equals sub.
Includes(text, sub) ==
    \E k \in 0..(Len(text) - Len(sub)) : SubSeq(text, k + 1, k + Len(sub)) = sub

\* A JS value converted by the + operator with a string operand:
\* null becomes "null", a string stays itself.
ToStr(v) == IF v.type = "null" THEN NullStr ELSE v.val

\* What line 73 passes to stdin.write: message + '\n' || '\n'.  The sum is
\* never the empty string, so the right operand of || is never taken.
StdinLine(message) ==
    LET s == ToStr(message) \o NL IN IF s = <<>> THEN NL ELSE s

\* Chunks a child may print.
StdoutChunks == { <<"o", "k", " ">> \o Marker, <<"m", "e", "s", "s", "a", "g", "e">> }
StderrChunks == { <<"b", "o", "o", "m">> }

\* JS values passed as the message argument of runScript: null (cron) or
\* the string JSON.stringify(req.body) (trigger, run).
JsNull == [type |-> "null"]
JsString(s) == [type |-> "string", val |-> s]
Payloads == { JsString(<<"{", "}">>) }

VARIABLES
    booted,     \* the server.listen callback has run
    crashed,    \* an uncaught exception has ended the node process
    disk,       \* ./data/scripts: directory name -> its files, or "none"
    scripts,    \* runtime.scripts
    cronTasks,  \* the tasks node-cron has created: [id, live]
    nextId,     \* the next id hat() returns
    invs        \* trigger/run requests and cron-started invocations

vars == <<booted, crashed, disk, scripts, cronTasks, nextId, invs>>

(* ---- descriptors and storage ------------------------------------------- *)
Runtimes == {"nodejs", "python"}
Schedules == {"* * * * *", "bogus"}

\* node-cron accepts the expression (nodeCron.schedule throws otherwise).
ValidCron(expr) == expr = "* * * * *"

\* req.body of POST /ui/new.  The model registers five kinds of script: a
\* node script with webhooks and no cron, with a well-formed schedule, with a
\* malformed one; a node script without webhooks; a script of a runtime
\* that has no launcher.
NewBodies ==
    { b \in [name : {"job"}, runtime : Runtimes, webhook : BOOLEAN, cron : BOOLEAN,
             cronSchedule : Schedules \cup {""}] :
        /\ b.cron <=> (b.cronSchedule # "")
        /\ (b.runtime = "python" \/ ~b.webhook) => ~b.cron
        /\ b.runtime = "python" => b.webhook }

\* The entryFile object built by POST /ui/new (lines 150-169), before
\* addCronTrigger attaches _cronTask (0 stands for "property absent").
EntryFile(id, b) ==
    [ id |-> id, name |-> b.name, runtime |-> b.runtime, webhook |-> b.webhook,
      cron |-> b.cron, cronSchedule |-> b.cronSchedule,
      entrypoint |-> IF b.runtime = "nodejs" THEN "app.js" ELSE "null",
      timeout |-> DefaultTimeout, _cronTask |-> 0 ]

\* A _cronTask property read from a .cog file: a value that is no task.
NotATask == 0 - 1

NoDir == [kind |-> "none"]
\* fs.writeFileSync: the file exists afterwards (contents are not modelled).
WriteFile(files, name) == files \cup {name}

\* The directory POST /ui/new leaves behind for entryFile e.
NewDir(e) ==
    [ kind |-> "dir",
      cog |-> [kind |-> "ok", val |-> e],
      files |-> IF e.runtime = "nodejs" THEN {"app.js"} ELSE {} ]

\* What ./data/scripts/<d> may hold when the server starts: nothing, a
\* directory without .cog, one whose .cog does not parse, or a directory
\* written by an earlier run of the server.
StoredDirs(d) ==
    { NoDir,
      [kind |-> "dir", cog |-> [kind |-> "missing"], files |-> {}],
      [kind |-> "dir", cog |-> [kind |-> "bad"], files |-> {}] }
    \cup { NewDir(EntryFile(d, b)) : b \in NewBodies }

(* ---- registry and scheduler -------------------------------------------- *)
Find(list, id) ==
    IF \E k \in 1..Len(list) : list[k].id = id
    THEN LET k == CHOOSE k \in 1..Len(list) :
                    list[k].id = id /\ \A j \in 1..(k - 1) : list[j].id # id
         IN  k
    ELSE 0

InRegistry(id) == Find(scripts, id) # 0
Filter(list, id) == SelectSeq(list, LAMBDA e : e.id # id)

\* addCronTrigger on the registry entry at position k.  nodeCron.schedule
\* throws on a malformed expression, before _cronTask is assigned.
AddCronTrigger(list, tasks, k) ==
    IF ValidCron(list[k].cronSchedule)
    THEN [ scripts |-> [list EXCEPT ![k]._cronTask = Len(tasks) + 1],
           cronTasks |-> Append(tasks, [id |-> list[k].id, live |-> TRUE]),
           threw |-> FALSE ]
    ELSE [ scripts |-> list, cronTasks |-> tasks, threw |-> TRUE ]

\* The reload loop of the server.listen callback, from directory d on, over
\* the names fs.readdirSync lists (in ascending order).
\* JSON.parse and addCronTrigger throw out of the callback: the exception
\* is uncaught and the process ends with what was loaded so far.
RECURSIVE Reload(_, _)
Reload(d, st) ==
    IF d \notin DOMAIN disk \/ st.crashed THEN st
    ELSE IF disk[d].kind = "none" \/ disk[d].cog.kind = "missing" THEN Reload(d + 1, st)
    ELSE IF disk[d].cog.kind = "bad" THEN [st EXCEPT !.crashed = TRUE]
    ELSE LET pushed == Append(st.scripts, disk[d].cog.val)
             k == Len(pushed)
         IN  IF pushed[k].cron
             THEN LET r == AddCronTrigger(pushed, st.cronTasks, k)
                  IN  Reload(d + 1, [scripts |-> r.scripts, cronTasks |-> r.cronTasks,
                                     crashed |-> r.threw])
             ELSE Reload(d + 1, [st EXCEPT !.scripts = pushed])

Init ==
    /\ booted = FALSE
    /\ crashed = FALSE
    /\ disk \in { f \in [AllIds -> UNION { StoredDirs(d) : d \in StoredIds } \cup {NoDir}] :
                    \A d \in AllIds : IF d \in StoredIds THEN f[d] \in StoredDirs(d)
                                      ELSE f[d] = NoDir }
    /\ scripts = <<>>
    /\ cronTasks = <<>>
    /\ nextId = MaxStored + 1
    /\ invs = <<>>

Live == booted /\ ~crashed

\* server.listen callback (lines 336-370).
Startup ==
    /\ ~booted
    /\ LET st == Reload(1, [scripts |-> <<>>, cronTasks |-> <<>>, crashed |-> FALSE])
       IN  /\ scripts' = st.scripts
           /\ cronTasks' = st.cronTasks
           /\ crashed' = st.crashed
    /\ booted' = TRUE
    /\ UNCHANGED <<disk, nextId, invs>>

\* POST /ui/new (lines 141-183).  hat() returns an id never seen before.
Register(b) ==
    /\ Live
    /\ nextId \in DOMAIN disk
    /\ LET e == EntryFile(nextId, b)
           pushed == Append(scripts, e)
           r == IF b.cron THEN AddCronTrigger(pushed, cronTasks, Len(pushed))
                ELSE [scripts |-> pushed, cronTasks |-> cronTasks, threw |-> FALSE]
       IN  /\ disk' = [disk EXCEPT ![nextId] = NewDir(e)]
           /\ scripts' = r.scripts
           /\ cronTasks' = r.cronTasks
    /\ nextId' = nextId + 1
    /\ UNCHANGED <<booted, crashed, invs>>

\* POST /ui/scripts/:script (lines 218-231).
Update(id) ==
    /\ Live
    /\ InRegistry(id)
    /\ LET s == scripts[Find(scripts, id)]
       IN  /\ disk[s.id].kind = "dir"
           /\ disk' = [disk EXCEPT ![s.id].files = WriteFile(@, s.entrypoint)]
    /\ UNCHANGED <<booted, crashed, scripts, cronTasks, nextId, invs>>

\* A destroy that leaves the task running.
DestroyKeepsRunning(tasks, h) == tasks

\* script._cronTask.destroy() (line 245): the task fires no more.
Destroy(tasks, h) == [tasks EXCEPT ![h].live = FALSE]

\* What the DELETE handler leaves of the scheduler, the disk and the
\* registry for the descriptor it finds for id (lines 244-252).  When
\* _cronTask is defined but has no destroy(), line 245 throws and the
\* handler ends there; rimrafSync of a path that is not there succeeds.
Deleted(id) ==
    LET s == scripts[Find(scripts, id)]
    IN  IF s._cronTask = NotATask
        THEN [cronTasks |-> cronTasks, disk |-> disk, scripts |-> scripts]
        ELSE [ cronTasks |-> IF s._cronTask # 0
                             THEN Destroy(cronTasks, s._cronTask)
                             ELSE cronTasks,
               disk |-> [disk EXCEPT ![s.id] = NoDir],
               scripts |-> Filter(scripts, s.id) ]

\* DELETE /ui/scripts/:script (lines 234-255).
Delete(id) ==
    /\ Live
    /\ InRegistry(id)
    /\ cronTasks' = Deleted(id).cronTasks
    /\ disk' = Deleted(id).disk
    /\ scripts' = Deleted(id).scripts
    /\ UNCHANGED <<booted, crashed, nextId, invs>>

(* ---- executor ----------------------------------------------------------- *)
\* Exit codes of a child; -1 stands for "no code" (ended by a signal).  The
\* listeners take no argument: the code is an input no variable records.
ExitCodes == {-1, 0, 1}

\* HTTP responses.
R404 == [status |-> 404, body |-> "not found"]
R400 == [status |-> 400, body |-> "webhooks disabled"]
R500 == [status |-> 500, body |-> "error"]
Ack(status) == [status |-> status, body |-> "triggered"]
Outcome(status, out, err) ==
    [status |-> status, body |-> "executed", output |-> out, outputError |-> err]

\* A request that started no child process.
NoProcess(kind, id, found, webhook, sends) ==
    [ kind |-> kind, script |-> id, found |-> found, webhook |-> webhook,
      spawned |-> FALSE,
      message |-> JsNull, running |-> FALSE, messageSent |-> FALSE, killed |-> FALSE,
      exitListeners |-> FALSE, child |-> "none", timer |-> FALSE, killCalls |-> 0,
      stdin |-> <<>>, emitted |-> <<>>,
      consoleOutput |-> <<>>, consoleError |-> <<>>, sends |-> sends ]

\* The state runScript leaves behind when it spawns (lines 46-94): the
\* child runs, the exit and stdout listeners are attached, the timer is set.
Spawned(kind, id, webhook, message, sends) ==
    [ NoProcess(kind, id, TRUE, webhook, sends) EXCEPT
        !.spawned = TRUE, !.message = message, !.running = TRUE,
        !.exitListeners = TRUE, !.child = "running", !.timer = TRUE ]

\* A runScript that goes on when its lookup finds nothing.
RunScriptNoLookup(id) ==
    IF InRegistry(id) /\ scripts[Find(scripts, id)].runtime # "nodejs" THEN "threw"
    ELSE "spawned"

\* A runScript that launches a child whatever the runtime is.
RunScriptAnyRuntime(id) ==
    IF ~InRegistry(id) THEN "notfound" ELSE "spawned"

\* runScript(cogScriptId, context, message), lines 37-95: "notfound" when
\* the lookup fails, "threw" when spawnedProcess is still null at line 60
\* (no launcher for the runtime), "spawned" otherwise.
RunScript(id) ==
    IF ~InRegistry(id) THEN "notfound"
    ELSE IF scripts[Find(scripts, id)].runtime = "nodejs" THEN "spawned"
    ELSE "threw"

RECURSIVE TotalChunks(_)
TotalChunks(k) == IF k = 0 THEN 0 ELSE Len(invs[k].emitted) + TotalChunks(k - 1)

\* A trigger handler that leaves the acknowledgement out.
TriggerSendNothing(first, status) == first

\* res.send of line 286, after the sends before it.
TriggerSend(first, status) == Append(first, Ack(status))

\* POST /api/v1/trigger/:script (lines 258-287).  A send after the headers
\* went out throws inside the handler; express ends the request.
Trigger(id, payload) ==
    /\ Live
    /\ Len(invs) < MaxInv
    /\ LET k == Find(scripts, id)
           first == IF scripts[k].webhook THEN <<>> ELSE <<R400>>
           status == IF scripts[k].webhook THEN 200 ELSE 400
           r == RunScript(id)
       IN  invs' = Append(invs,
                IF k = 0 THEN NoProcess("trigger", id, FALSE, FALSE, <<R404>>)
                ELSE IF r = "spawned"
                     THEN Spawned("trigger", id, scripts[k].webhook, payload,
                                  TriggerSend(first, status))
                     ELSE NoProcess("trigger", id, TRUE, scripts[k].webhook,
                                    IF first = <<>> THEN <<R500>> ELSE first))
    /\ UNCHANGED <<booted, crashed, disk, scripts, cronTasks, nextId>>

\* POST /api/v1/run/:script (lines 290-333), up to the return of the handler.
Run(id, payload) ==
    /\ Live
    /\ Len(invs) < MaxInv
    /\ LET k == Find(scripts, id)
           first == IF scripts[k].webhook THEN <<>> ELSE <<R400>>
           r == RunScript(id)
       IN  invs' = Append(invs,
                IF k = 0 THEN NoProcess("run", id, FALSE, FALSE, <<R404>>)
                ELSE IF r = "spawned"
                     THEN Spawned("run", id, scripts[k].webhook, payload, first)
                     ELSE NoProcess("run", id, TRUE, scripts[k].webhook,
                                    IF first = <<>> THEN <<R500>> ELSE first))
    /\ UNCHANGED <<booted, crashed, disk, scripts, cronTasks, nextId>>

\* The callback addCronTrigger schedules (lines 28-32).  node-cron catches
\* what the callback throws.
CronTick(h) ==
    /\ Live
    /\ h \in 1..Len(cronTasks)
    /\ cronTasks[h].live
    /\ IF RunScript(cronTasks[h].id) = "spawned"
       THEN /\ Len(invs) < MaxInv
            /\ invs' = Append(invs, Spawned("cron", cronTasks[h].id,
                   InRegistry(cronTasks[h].id)
                       /\ scripts[Find(scripts, cronTasks[h].id)].webhook,
                   JsNull, <<>>))
       ELSE UNCHANGED invs
    /\ UNCHANGED <<booted, crashed, disk, scripts, cronTasks, nextId>>

StreamsOpen(i) == invs[i].spawned /\ invs[i].child \in {"running", "exited"}

\* A 'data' event of the child's stdout: the listener of runScript (lines
\* 66-75), then the one of the run handler (lines 321-323).
StdoutData(i, chunk) ==
    /\ Live
    /\ i \in 1..Len(invs)
    /\ StreamsOpen(i)
    /\ TotalChunks(Len(invs)) < MaxChunks
    /\ invs' = [invs EXCEPT
          ![i].emitted = Append(@, [stream |-> "stdout", text |-> chunk]),
          ![i].stdin = IF Includes(chunk, Marker)
                       THEN Append(@, StdinLine(invs[i].message)) ELSE @,
          ![i].consoleOutput = IF invs[i].kind = "run" THEN @ \o chunk ELSE @ ]
    /\ UNCHANGED <<booted, crashed, disk, scripts, cronTasks, nextId>>

\* A 'data' event of the child's stderr (lines 325-328).  Only the run
\* handler listens to stderr; without a listener the stream emits nothing.
StderrData(i, chunk) ==
    /\ Live
    /\ i \in 1..Len(invs)
    /\ StreamsOpen(i)
    /\ invs[i].kind = "run"
    /\ TotalChunks(Len(invs)) < MaxChunks
    /\ invs' = [invs EXCEPT
          ![i].emitted = Append(@, [stream |-> "stderr", text |-> chunk]),
          ![i].consoleOutput = @ \o chunk,
          ![i].consoleError = @ \o chunk ]
    /\ UNCHANGED <<booted, crashed, disk, scripts, cronTasks, nextId>>

\* A status that follows the exit code.
ExitStatusFromCode(sends, code) ==
    IF sends # <<>> THEN 400 ELSE IF code = 0 THEN 200 ELSE 500

\* The status of the response sent at line 331: express keeps the 400 set
\* at line 305, and 200 otherwise, whatever the exit code.
ExitStatus(sends, code) == IF sends = <<>> THEN 200 ELSE 400

\* The child's 'exit' event with exit code `code` (-1: ended by a signal):
\* the listener of runScript (lines 60-64), then the one of the run handler
\* (lines 330-332), when they are still attached.
\* res.send after the 400 went out throws in the event callback: nothing
\* catches it.
ChildExit(i, code) ==
    /\ Live
    /\ i \in 1..Len(invs)
    /\ invs[i].child = "running"
    /\ invs[i].killed <=> code = -1
    /\ LET v == invs[i]
           responds == v.exitListeners /\ v.kind = "run"
       IN  /\ invs' = [invs EXCEPT
                 ![i].child = "exited",
                 ![i].running = IF v.exitListeners THEN FALSE ELSE @,
                 ![i].sends = IF responds
                              THEN Append(@, Outcome(ExitStatus(@, code),
                                              v.consoleOutput, v.consoleError))
                              ELSE @ ]
           /\ crashed' = (responds /\ v.sends # <<>>)
    /\ UNCHANGED <<booted, disk, scripts, cronTasks, nextId>>

\* A timeout callback that reaches the children of the other invocations
\* of the script as well, as if the process were kept outside the call.
TimeoutSharedProcess(i) ==
    /\ Live
    /\ i \in 1..Len(invs)
    /\ invs[i].timer
    /\ invs' = [ j \in DOMAIN invs |->
          IF j = i
          THEN [invs[j] EXCEPT !.timer = FALSE,
                               !.exitListeners = IF invs[j].killed THEN @ ELSE FALSE,
                               !.killCalls = IF invs[j].killed THEN @ ELSE @ + 1,
                               !.killed = IF invs[j].killed THEN @
                                          ELSE invs[j].child = "running"]
          ELSE IF invs[j].script = invs[i].script /\ invs[j].child = "running"
                    /\ ~invs[j].killed
               THEN [invs[j] EXCEPT !.exitListeners = FALSE, !.killCalls = @ + 1,
                                    !.killed = TRUE]
               ELSE invs[j] ]
    /\ UNCHANGED <<booted, crashed, disk, scripts, cronTasks, nextId>>

\* The test of line 84 for invocation v (spawnedProcess is never null here).
EntersKillPath(v) == ~v.killed

\* The setTimeout callback of runScript (lines 78-92).  kill() signals the
\* process and sets killed only while the process has not been reaped.
Timeout(i) ==
    /\ Live
    /\ i \in 1..Len(invs)
    /\ invs[i].timer
    /\ invs' = [invs EXCEPT
          ![i].timer = FALSE,
          ![i].exitListeners = IF EntersKillPath(invs[i]) THEN FALSE ELSE @,
          ![i].killCalls = IF EntersKillPath(invs[i]) THEN @ + 1 ELSE @,
          ![i].killed = IF EntersKillPath(invs[i]) THEN invs[i].child = "running" ELSE @ ]
    /\ UNCHANGED <<booted, crashed, disk, scripts, cronTasks, nextId>>

Next ==
    \/ Startup
    \/ \E b \in NewBodies : Register(b)
    \/ \E id \in AllIds : Update(id)
    \/ \E id \in AllIds : Delete(id)
    \/ \E id \in AllIds, payload \in Payloads : Trigger(id, payload)
    \/ \E id \in AllIds, payload \in Payloads : Run(id, payload)
    \/ \E h \in 1..(MaxStored + MaxNew) : CronTick(h)
    \/ \E i \in 1..MaxInv, chunk \in StdoutChunks : StdoutData(i, chunk)
    \/ \E i \in 1..MaxInv, chunk \in StderrChunks : StderrData(i, chunk)
    \/ \E i \in 1..MaxInv, code \in ExitCodes : ChildExit(i, code)
    \/ \E i \in 1..MaxInv : Timeout(i)

Spec == Init /\ [][Next]_vars

(* ---- a scripts directory the server did not write alone ----------------- *)
MaxDirs == 2
DirIds == 1..MaxDirs
StoreIds == 1..(MaxDirs + MaxNew)

\* Every body POST /ui/new may have stored in an earlier run.
StoredBodies ==
    { b \in [ name : {"job"}, runtime : Runtimes, webhook : BOOLEAN,
              cron : BOOLEAN, cronSchedule : Schedules \cup {""} ] :
         b.cron <=> b.cronSchedule # "" }

\* What ./data/scripts/<d> may hold when somebody else wrote to it as well:
\* what the server left there, a copy of another script's directory, or a
\* .cog that carries a _cronTask property.
ForeignDirs(d) ==
    { NoDir,
      [kind |-> "dir", cog |-> [kind |-> "missing"], files |-> {}],
      [kind |-> "dir", cog |-> [kind |-> "bad"], files |-> {}] }
    \cup { NewDir(EntryFile(e, b)) : e \in DirIds, b \in StoredBodies }
    \cup { NewDir([EntryFile(d, b) EXCEPT !._cronTask = NotATask]) : b \in StoredBodies }

InitStorage ==
    /\ booted = FALSE
    /\ crashed = FALSE
    /\ disk \in { f \in [StoreIds -> UNION { ForeignDirs(d) : d \in DirIds }] :
                    \A d \in StoreIds : IF d \in DirIds THEN f[d] \in ForeignDirs(d)
                                        ELSE f[d] = NoDir }
    /\ scripts = <<>>
    /\ cronTasks = <<>>
    /\ nextId = MaxDirs + 1
    /\ invs = <<>>

\* The requests and cron ticks of the server; the children's events are
\* left to Spec.
NextStorage ==
    \/ Startup
    \/ \E b \in NewBodies : Register(b)
    \/ \E id \in StoreIds : Update(id)
    \/ \E id \in StoreIds : Delete(id)
    \/ \E id \in StoreIds, payload \in Payloads : Trigger(id, payload)
    \/ \E id \in StoreIds, payload \in Payloads : Run(id, payload)
    \/ \E h \in StoreIds : CronTick(h)

SpecStorage == InitStorage /\ [][NextStorage]_vars

(* ---- properties -------------------------------------------------------- *)
Slots == 1..Len(invs)

\* text contains the substring "message:" (the claims' own reading of
\* "contains", by scanning the text from its start).
RECURSIVE HasMarker(_)
HasMarker(text) ==
    IF Len(text) < Len(Marker) THEN FALSE
    ELSE IF \A k \in 1..Len(Marker) : text[k] = Marker[k] THEN TRUE
    ELSE HasMarker(Tail(text))

\* The stdout chunks of invocation i that contain the marker.
Matches(i) ==
    { k \in 1..Len(invs[i].emitted) :
        /\ invs[i].emitted[k].stream = "stdout"
        /\ HasMarker(invs[i].emitted[k].text) }

\* The chunks of one stream, concatenated in arrival order.
RECURSIVE StreamConcat(_, _)
StreamConcat(em, stream) ==
    IF em = <<>> THEN <<>>
    ELSE (IF Head(em).stream = stream THEN Head(em).text ELSE <<>>)
         \o StreamConcat(Tail(em), stream)

\* C1: in one invocation (of a cron tick, or of a request on a
\* webhook-enabled script), once a stdout chunk containing "message:" has
\* arrived, exactly one write to the child's stdin has been made, however
\* many matching chunks arrive.
C1_HandshakeOnce ==
    \A i \in Slots :
        (invs[i].spawned /\ (invs[i].kind = "cron" \/ invs[i].webhook) /\ Matches(i) # {})
        => Len(invs[i].stdin) = 1

\* C2: a run request on a webhook-enabled script whose child was killed by
\* the timeout has received its response once the child's exit has been
\* handled (the exit handler is the only place that responds).
C2_TimeoutOutcomeDelivered ==
    \A i \in Slots :
        ( /\ invs[i].kind = "run" /\ invs[i].webhook /\ invs[i].spawned
          /\ invs[i].killed /\ invs[i].child = "exited" )
        => invs[i].sends # <<>>

\* C3: a trigger or run request for a registered script with webhooks
\* disabled spawns no child and calls send exactly once, with status 400.
C3_DisabledNotHonored ==
    \A i \in Slots :
        (invs[i].kind \in {"trigger", "run"} /\ invs[i].found /\ ~invs[i].webhook)
        => (~invs[i].spawned /\ invs[i].sends = <<R400>>)

\* C4: a child that has neither exited nor been killed still has its
\* timeout pending in a running engine, so that the kill is still to come.
C4_RunningChildHasTimer ==
    \A i \in Slots :
        (invs[i].spawned /\ invs[i].child = "running" /\ ~invs[i].killed)
        => (invs[i].timer /\ ~crashed)

\* C5: the step that removes id d from the registry also removes its
\* directory and leaves no live cron task for d; and from then on d stays
\* out of the registry, its directory stays absent, no cron task for d is
\* live and no cron tick spawns a child for d.
LiveTaskFor(d) ==
    \E h \in 1..Len(cronTasks) : cronTasks[h].id = d /\ cronTasks[h].live
Gone(d) == ~InRegistry(d) /\ disk[d].kind = "none" /\ ~LiveTaskFor(d)
CronSpawn(d) ==
    /\ Len(invs') = Len(invs) + 1
    /\ invs'[Len(invs')].kind = "cron"
    /\ invs'[Len(invs')].script = d
C5_DeleteIsFinal ==
    [][ \A d \in AllIds :
          /\ (InRegistry(d) /\ ~InRegistry(d)') => Gone(d)'
          /\ (d < nextId /\ Gone(d)) => (Gone(d)' /\ ~CronSpawn(d)) ]_vars
\* A cron-enabled descriptor has been deleted.
C5_Witness ==
    \E d \in AllIds :
        /\ Live /\ Gone(d)
        /\ \E h \in 1..Len(cronTasks) : cronTasks[h].id = d /\ ~cronTasks[h].live

\* C6: while the engine runs, every registry entry with the cron flag has a
\* live cron task, and every live cron task belongs to an id in the registry.
C6_CronScheduled ==
    Live =>
      /\ \A k \in 1..Len(scripts) :
            scripts[k].cron =>
                (scripts[k]._cronTask # 0 /\ cronTasks[scripts[k]._cronTask].live)
      /\ \A h \in 1..Len(cronTasks) :
            cronTasks[h].live => InRegistry(cronTasks[h].id)

\* C7: for a run request on a webhook-enabled script that started a child:
\* nothing is sent while the child has not exited, never more than one
\* response is sent, and once the child has exited without being killed by
\* the timeout exactly one response was sent, with status 200 and the
\* { message, output, outputError } body, for every exit code.
C7_RunRespondsOnExit ==
    \A i \in Slots :
        (invs[i].kind = "run" /\ invs[i].webhook /\ invs[i].spawned)
        => /\ invs[i].child = "running" => invs[i].sends = <<>>
           /\ Len(invs[i].sends) <= 1
           /\ (invs[i].child = "exited" /\ ~invs[i].killed)
              => /\ Len(invs[i].sends) = 1
                 /\ invs[i].sends[1].status = 200
                 /\ invs[i].sends[1].body = "executed"
                 /\ DOMAIN invs[i].sends[1] = {"status", "body", "output", "outputError"}
\* A run whose child wrote to stderr and exited got its 200.
C7_Witness ==
    \E i \in Slots :
        /\ invs[i].kind = "run" /\ invs[i].webhook /\ invs[i].spawned
        /\ invs[i].child = "exited" /\ ~invs[i].killed
        /\ invs[i].consoleError # <<>>
        /\ invs[i].sends = <<Outcome(200, invs[i].consoleOutput, invs[i].consoleError)>>

\* C8: a trigger request on a known, webhook-enabled script that started a
\* child has, from the step that started it and in every later state
\* (child running, exited or killed), exactly one response: the 200
\* acknowledgement, which carries no output.
C8_TriggerAcksAtOnce ==
    \A i \in Slots :
        (invs[i].kind = "trigger" /\ invs[i].webhook /\ invs[i].spawned)
        => invs[i].sends = <<Ack(200)>>
\* A triggered child that printed, was killed by the timeout and has exited.
C8_Witness ==
    \E i \in Slots :
        /\ invs[i].kind = "trigger" /\ invs[i].webhook /\ invs[i].spawned
        /\ invs[i].killed /\ invs[i].child = "exited" /\ invs[i].emitted # <<>>
        /\ invs[i].sends = <<Ack(200)>>

\* C9: the buffers a run on a webhook-enabled script returns are the
\* concatenation of the stdout chunks (output) and of the stderr chunks
\* (outputError), each in arrival order.
C9_SeparateBuffers ==
    \A i \in Slots :
        (invs[i].kind = "run" /\ invs[i].webhook /\ invs[i].spawned)
        => /\ invs[i].consoleOutput = StreamConcat(invs[i].emitted, "stdout")
           /\ invs[i].consoleError = StreamConcat(invs[i].emitted, "stderr")

\* C10: an invocation none of whose stdout chunks contains "message:" has
\* made no write to the child's stdin.
C10_NoMarkerNoWrite ==
    \A i \in Slots : Matches(i) = {} => invs[i].stdin = <<>>
\* An invocation with a payload whose only stdout chunks lack the marker,
\* whose child has exited and whose timeout has fired.
C10_Witness ==
    \E i \in Slots :
        /\ invs[i].spawned /\ invs[i].message \in Payloads
        /\ \E k \in 1..Len(invs[i].emitted) : invs[i].emitted[k].stream = "stdout"
        /\ Matches(i) = {}
        /\ invs[i].child = "exited" /\ ~invs[i].timer
        /\ invs[i].stdin = <<>>

(* ---- storage, startup load and the registry ---------------------------- *)
\* C11: no two descriptors of the Registry have the same id, after any
\* sequence of startup load, registrations and deletions.
C11_UniqueIds ==
    \A j, k \in 1..Len(scripts) : scripts[j].id = scripts[k].id => j = k

\* The runtime of the descriptor runScript finds for id.
RuntimeOf(id) == scripts[Find(scripts, id)].runtime

\* C12: a request for a descriptor whose runtime has no launcher fails
\* without a child: the invocation it leaves has no process, no exit
\* listener and no timer, the caller gets an error and never a success, and
\* the engine is still running after the step.
C12_UnsupportedRuntimeFails ==
    [][ Len(invs') = Len(invs) + 1 =>
          LET v == invs'[Len(invs')]
          IN  (InRegistry(v.script) /\ RuntimeOf(v.script) # "nodejs") =>
                /\ ~v.spawned /\ v.child = "none"
                /\ ~v.timer /\ ~v.exitListeners /\ v.killCalls = 0
                /\ v.sends # <<>> /\ \A k \in 1..Len(v.sends) : v.sends[k].status >= 400
                /\ ~crashed' ]_vars

\* A failed request on a python descriptor, then a cron child started by
\* the same engine, while a cron task of a python descriptor is live.
C12_Witness ==
    /\ Live
    /\ Len(invs) = 2
    /\ invs[1].found /\ ~invs[1].spawned /\ invs[1].sends = <<R500>>
    /\ invs[2].kind = "cron" /\ invs[2].spawned
    /\ \E h \in 1..Len(cronTasks) :
          /\ cronTasks[h].live
          /\ InRegistry(cronTasks[h].id)
          /\ RuntimeOf(cronTasks[h].id) = "python"

\* The descriptor ./data/scripts/<d>/.cog holds, when it parses.
WellFormed(d) == disk[d].kind = "dir" /\ disk[d].cog.kind = "ok"

\* Some stored descriptor asks for a cron schedule node-cron rejects.
BadScheduleStored ==
    \E d \in DirIds : WellFormed(d) /\ disk[d].cog.val.cron
                        /\ disk[d].cog.val.cronSchedule # "* * * * *"

\* C13: the startup load leaves every stored directory that has a
\* well-formed descriptor with its descriptor in the Registry, whatever the
\* other directories hold (stores without a rejected cron schedule).
C13_LoadSkipsMalformed ==
    [][ (~booted /\ booted' /\ ~BadScheduleStored) =>
          \A d \in DirIds : WellFormed(d) =>
              \E k \in 1..Len(scripts') : scripts'[k].id = disk[d].cog.val.id ]_vars

\* C17: a delete request for a registered descriptor takes the id out of
\* the Registry, whatever state its cron task handle and its storage
\* directory are in.
C17_DeleteAlwaysRemoves ==
    Live => \A id \in StoreIds :
               InRegistry(id) => Find(Deleted(id).scripts, id) = 0

\* C20: a step that starts an invocation or fires a cron task never
\* changes the Registry, and the invocation it adds has a child or comes
\* from a cron task only for an id that is in the Registry at that moment:
\* for an id without an entry nothing is spawned and no timer is set.
C20_RegistryFrame ==
    [][ /\ invs' # invs => scripts' = scripts
        /\ Len(invs') = Len(invs) + 1 =>
              LET v == invs'[Len(invs')]
              IN  /\ (v.spawned \/ v.kind = "cron") => InRegistry(v.script)
                  /\ ~InRegistry(v.script) =>
                        ~v.spawned /\ v.child = "none" /\ ~v.timer ]_vars

\* A cron task is still live for an id that is no longer in the Registry,
\* and a request for an unknown id was answered without a child.
C20_Witness ==
    /\ Live
    /\ \E h \in 1..Len(cronTasks) : cronTasks[h].live /\ ~InRegistry(cronTasks[h].id)
    /\ \E i \in Slots : ~invs[i].found /\ ~invs[i].spawned /\ invs[i].child = "none"
    /\ \E i \in Slots : invs[i].kind = "cron" /\ invs[i].spawned

(* ---- timeout, streams and the handshake -------------------------------- *)
\* C14: kill() is called on a child only while it is running: an
\* invocation on which kill() was called has a child that was killed by it.
C14_NoKillAfterExit ==
    \A i \in Slots : invs[i].killCalls > 0 => invs[i].killed

\* C15: once the timeout has fired on the running child of an honoured
\* invocation and killed it, a chunk of its output changes neither the
\* captured output nor what was written to its stdin.
C15_DetachedAfterTimeout ==
    [][ \A i \in Slots :
          ((invs[i].kind = "cron" \/ invs[i].webhook)
              /\ invs[i].killed /\ ~invs[i].timer) =>
              /\ invs'[i].consoleOutput = invs[i].consoleOutput
              /\ invs'[i].consoleError = invs[i].consoleError
              /\ invs'[i].stdin = invs[i].stdin ]_vars

\* C16: the response a run caller has received carries everything the
\* handler has captured from the child: no chunk is captured after it.
C16_OutcomeIsComplete ==
    \A i \in Slots :
        (invs[i].kind = "run" /\ invs[i].webhook /\ invs[i].spawned
            /\ invs[i].sends # <<>>) =>
            /\ invs[i].sends[1].output = invs[i].consoleOutput
            /\ invs[i].sends[1].outputError = invs[i].consoleError

\* C19: every line written to the stdin of an honoured invocation is the
\* payload followed by a newline, and just the newline when the invocation
\* was started without a payload (by a cron task).
C19_StdinLineIsPayload ==
    \A i \in Slots :
        (invs[i].spawned /\ (invs[i].kind = "cron" \/ invs[i].webhook)) =>
            \A k \in 1..Len(invs[i].stdin) :
                invs[i].stdin[k] = IF invs[i].message = JsNull THEN NL
                                   ELSE invs[i].message.val \o NL

\* C18: a step changes the state of at most one invocation: an event of
\* one invocation (data, handshake, exit, timeout) leaves the running flag,
\* kill state, timer, stdin and captured output of every other invocation
\* as they were, those of the same script included.
C18_InvocationsIndependent ==
    [][ \A i, j \in Slots :
          (i # j /\ invs'[i] # invs[i]) => invs'[j] = invs[j] ]_vars

\* Two invocations of one script with a child each: the first was killed
\* by its timeout after its handshake, the second still runs with its own
\* timer pending, its own output and nothing written to its stdin.
C18_Witness ==
    /\ Live
    /\ \E i, j \in Slots :
          /\ i # j
          /\ invs[i].script = invs[j].script
          /\ invs[i].spawned /\ invs[j].spawned
          /\ invs[i].killed /\ ~invs[i].timer /\ Len(invs[i].stdin) = 1
          /\ invs[j].child = "running" /\ invs[j].running /\ invs[j].timer
          /\ ~invs[j].killed /\ invs[j].killCalls = 0
          /\ invs[j].stdin = <<>> /\ invs[j].emitted # <<>>

====
